---- MODULE Spec2Model ----
(***************************************************************************)
(* goburn: the dynamic worker pool (worker/pool.go), the workers' batched  *)
(* updates of the shared operation counter, and the 1 Hz sampling loops    *)
(* (line mode, the older main loops, and the interactive TUI).             *)
(*                                                                         *)
(* One goroutine (the "caller": main, or the TUI's event loop) owns the    *)
(* pool and runs New / SetWorkers / the tick and key handlers, one at a    *)
(* time.  Its position inside SetWorkers is pc; every step of it is one    *)
(* operation another goroutine can observe (an atomic add, a channel send, *)
(* a go statement).  Each worker goroutine is a process of its own.        *)
(***************************************************************************)
EXTENDS Integers, Sequences, FiniteSets

\* ------------------------------------------------------------------ bounds

\* Targets passed to SetWorkers / New range over 0..MaxTarget.
MaxTarget == 2
\* Total number of workers spawned over a run (worker ids are never reused).
MaxSpawn == 2
\* The shared counter is capped at MaxBatches flushed batches.
MaxBatches == 2
\* Configured durations range over 0..MaxDuration time units.
MaxDuration == 3
\* A tick may be late by 0..MaxJitter time units.
MaxJitter == 1
\* GOMAXPROCS before the pool first sets it.
NumCPU == 2
\* The sampling programs start the pool with 1..MaxInit workers; the "+" key
\* is taken up only while the TUI has created fewer than MaxInit workers in
\* all.
MaxInit == 2
\* At most MaxSensors temperature sensors and MaxFans fan files are listed.
MaxSensors == 2
MaxFans == 2
\* The TUI renders at most MaxTicks ticks.
MaxTicks == 62
\* Negative targets go down to -MaxNegative.
MaxNegative == 2

\* --------------------------------------------------------------- constants

\* Iterations between two flushes of a worker's private count.
Batch == 1000000
\* One second (time.Second) in the model's time unit of half a second.
Second == 2
\* The length of the TUI's history window (Model.maxPoints).
maxPoints == 60
Workers == 1..MaxSpawn
\* The keys handleKeyPress tells apart; "x" stands for any other key.
Keys == {"q", "ctrl+c", "+", "=", "-", "_", "x"}

VARIABLES
    counter,        \* *wp.counter: the shared operation counter (uint64)
    stopChannels,   \* wp.stopChannels: sequence of channels, a channel is named by its worker
    activeCount,    \* wp.activeCount
    gomaxprocs,     \* the runtime's GOMAXPROCS setting
    chanBuf,        \* chanBuf[w]: number of values in worker w's stop channel (capacity 1)
    wstate,         \* wstate[w]: "unborn", "spawned" (at the select, no poll yet), "running"
                    \* (at the select), "working" (in the default case of the
                    \* iteration that flushes), "exited"
    wi,             \* wi[w]: worker w's private count i
    spawned,        \* number of workers created so far (the next worker is spawned + 1)
    pc,             \* the caller's position: "new", "idle", or inside SetWorkers
    target,         \* SetWorkers' parameter
    n,              \* spawnWorkers' / stopWorkers' parameter n
    k,              \* the loop index i of spawnWorkers / stopWorkers
    cur,            \* stopWorkers' local current
    mode,           \* which program drives the pool
    runState,       \* "RUNNING" or "TERMINATED"
    elapsed,        \* time since startTime at the latest tick
    duration,       \* the configured duration
    lastCounter,    \* last / m.lastCounter
    delta,          \* c - last of the latest tick (uint64)
    key,            \* the key press handled last ("none" before the first)
    before,         \* GetActiveCount() when that key press was taken up
    reads,          \* what the sysfs files gave the latest hardware.Get()
    stats,          \* the Stats value the latest hardware.Get() returned
    hwInfo,         \* the string formatHardwareStats returned last, as its pieces
    currentOps,     \* m.currentOps
    opsHistory,     \* m.opsHistory
    cpuHistory,     \* m.cpuHistory
    tempHistory,    \* m.tempHistory
    fanHistory,     \* m.fanHistory
    ticks,          \* number of ticks the TUI has rendered
    lpc,            \* the line loop's position in its body: "read", "sample", "print", "check"
    cRead,          \* c: the counter value the latest tick read
    opsSum,         \* sum of the ops values displayed so far
    printed,        \* number of lines the line loop has printed
    line,           \* the line printed last: <<ops, hardware segment>>
    pendingTicks,   \* tick commands the TUI has returned whose message is not handled yet
    width,          \* m.width
    height          \* m.height

poolVars == <<stopChannels, activeCount, gomaxprocs, chanBuf, spawned>>
callVars == <<pc, target, n, k, cur>>
workerVars == <<wstate, wi>>
loopVars == <<mode, runState, elapsed, duration, lastCounter, delta>>
keyVars == <<key, before>>
hwVars == <<reads, stats, hwInfo>>
histVars == <<currentOps, opsHistory, cpuHistory, tempHistory, fanHistory, ticks>>
outVars == <<lpc, cRead, opsSum, printed, line>>
tuiVars == <<pendingTicks, width, height>>
viewVars == <<hwVars, histVars, outVars, tuiVars>>
vars == <<counter, poolVars, callVars, workerVars, loopVars, keyVars, viewVars>>

\* Returning from the sampling loop ends main, and with it the process: no
\* goroutine takes a step once the run is TERMINATED.
ProcessAlive == runState = "RUNNING"

\* ------------------------------------------------------------ worker pool

\* GetActiveCount: atomic.LoadInt32(&wp.activeCount).
GetActiveCount == activeCount

\* make(chan bool, 1): the capacity of a stop channel.
ChanCap == 1

\* A runtime whose setting no call changes.
GOMAXPROCS_Keep(old, new) == old

\* runtime.GOMAXPROCS(n): a value below 1 leaves the setting as it is.
GOMAXPROCS(old, new) == IF new < 1 THEN old ELSE new

\* spawnWorkers called with one worker too many.
SpawnCount_OneMore(t, current) == t - current + 1

\* SetWorkers: how many workers to spawn when target > current.
SpawnCount(t, current) == t - current

\* SetWorkers taking a negative target for its magnitude.
StopCount_Magnitude(t, current) == IF t < 0 THEN current + t ELSE current - t

\* stopWorkers called with one worker too many.
StopCount_OneMore(t, current) == current - t + 1

\* SetWorkers: how many workers to stop when target < current.
StopCount(t, current) == current - t

\* stopWorkers signalling the first channel in every iteration.
StopIdx_AlwaysFirst(current, i) == 0

\* stopWorkers signalling the oldest worker first and then the newest ones.
StopIdx_OldestThenNewest(current, i) == (current - i) % current

\* stopWorkers signalling the oldest workers first (while the clean-up still
\* drops the newest channels).
StopIdx_FromFront(current, i) == i

\* stopWorkers signalling the last channel in every iteration.
StopIdx_NoOffset(current, i) == current - 1

\* stopWorkers: the index (0-based) of the channel signalled in iteration i.
StopIdx(current, i) == current - 1 - i

\* stopWorkers keeping the newest channels instead of the oldest.
Trim_DropFront(chans, newCount) ==
    IF newCount >= 0 /\ newCount < Len(chans)
    THEN SubSeq(chans, Len(chans) - newCount + 1, Len(chans))
    ELSE chans

\* stopWorkers without the clean-up of the stopped channels.
Trim_Keep(chans, newCount) == chans

\* stopWorkers: wp.stopChannels[:newCount] when 0 <= newCount < len.
Trim(chans, newCount) ==
    IF newCount >= 0 /\ newCount < Len(chans)
    THEN SubSeq(chans, 1, newCount)
    ELSE chans

\* SetWorkers spawning one worker when the target is the current count.
Dispatch_SpawnOnEqual(t) ==
    LET current == GetActiveCount IN
    /\ target' = t
    /\ k' = 0
    /\ cur' = GetActiveCount
    /\ IF t >= current
       THEN /\ pc' = "spawn"
            /\ n' = IF t = current THEN 1 ELSE SpawnCount(t, current)
       ELSE /\ pc' = "stop"
            /\ n' = StopCount(t, current)

\* SetWorkers up to the call of spawnWorkers / stopWorkers: load the count and branch.
Dispatch(t) ==
    LET current == GetActiveCount IN
    /\ target' = t
    /\ k' = 0
    /\ IF t > current
       THEN /\ pc' = IF SpawnCount(t, current) > 0 THEN "spawn" ELSE "procs"
            /\ n' = SpawnCount(t, current)
            /\ cur' = 0
       ELSE IF t < current
       THEN /\ pc' = "stop"
            /\ n' = StopCount(t, current)
            /\ cur' = GetActiveCount
       ELSE /\ pc' = "procs"
            /\ n' = 0
            /\ cur' = 0

\* Workers a call SetWorkers(t) would create.
Needed(t) == IF t > activeCount THEN t - activeCount ELSE 0

\* New: the pool starts empty and SetWorkers(initialWorkers) runs.
New ==
    /\ ProcessAlive
    /\ pc = "new"
    /\ Dispatch(target)
    /\ UNCHANGED <<counter, poolVars, workerVars, loopVars, keyVars, viewVars>>

\* A direct call SetWorkers(t) by the pool's owner.
CallSetWorkers(t) ==
    /\ ProcessAlive
    /\ mode \in {"api", "sampled"}
    /\ pc = "idle"
    /\ spawned + Needed(t) <= MaxSpawn
    /\ Dispatch(t)
    /\ UNCHANGED <<counter, poolVars, workerVars, loopVars, keyVars, viewVars>>

\* spawnWorkers, first half of an iteration: make the channel, append it, add 1.
SpawnAppend ==
    /\ ProcessAlive
    /\ pc = "spawn"
    /\ k < n
    /\ stopChannels' = Append(stopChannels, spawned + 1)
    /\ activeCount' = activeCount + 1
    /\ pc' = "go"
    /\ UNCHANGED <<counter, gomaxprocs, chanBuf, spawned, target, n, k, cur,
                   workerVars, loopVars, keyVars, viewVars>>

\* spawnWorkers, second half: go wp.runWorker(stopCh); i++.
SpawnGo ==
    /\ ProcessAlive
    /\ pc = "go"
    /\ wstate' = [wstate EXCEPT ![spawned + 1] = "spawned"]
    /\ spawned' = spawned + 1
    /\ k' = k + 1
    /\ pc' = IF k + 1 < n THEN "spawn" ELSE "procs"
    /\ UNCHANGED <<counter, stopChannels, activeCount, gomaxprocs, chanBuf,
                   target, n, cur, wi, loopVars, keyVars, viewVars>>

\* stopWorkers: the loop condition i < n && i < len(wp.stopChannels).
StopLoopCond == k < n /\ k < Len(stopChannels)

\* stopWorkers: idx >= 0 && idx < len(wp.stopChannels).
StopIdxInRange == StopIdx(cur, k) >= 0 /\ StopIdx(cur, k) < Len(stopChannels)

\* The channel stopWorkers sends on in this iteration.
StopChan == stopChannels[StopIdx(cur, k) + 1]

\* stopWorkers, one loop iteration up to the send: when idx is in range,
\* wp.stopChannels[idx] <- true (the send waits while the channel's buffer is
\* full); when it is not, the iteration does nothing and i++.
StopSend ==
    /\ ProcessAlive
    /\ pc = "stop"
    /\ StopLoopCond
    /\ IF StopIdxInRange
       THEN /\ chanBuf[StopChan] < ChanCap
            /\ chanBuf' = [chanBuf EXCEPT ![StopChan] = @ + 1]
            /\ pc' = "dec"
            /\ k' = k
       ELSE /\ chanBuf' = chanBuf
            /\ pc' = "stop"
            /\ k' = k + 1
    /\ UNCHANGED <<counter, stopChannels, activeCount, gomaxprocs, spawned,
                   target, n, cur, workerVars, loopVars, keyVars, viewVars>>

\* stopWorkers: atomic.AddInt32(&wp.activeCount, -1); i++.
StopDec ==
    /\ ProcessAlive
    /\ pc = "dec"
    /\ activeCount' = activeCount - 1
    /\ k' = k + 1
    /\ pc' = "stop"
    /\ UNCHANGED <<counter, stopChannels, gomaxprocs, chanBuf, spawned,
                   target, n, cur, workerVars, loopVars, keyVars, viewVars>>

\* stopWorkers: after the loop, drop the stopped channels from the list.
StopCleanup ==
    /\ ProcessAlive
    /\ pc = "stop"
    /\ ~StopLoopCond
    /\ stopChannels' = Trim(stopChannels, GetActiveCount)
    /\ pc' = "procs"
    /\ UNCHANGED <<counter, activeCount, gomaxprocs, chanBuf, spawned,
                   target, n, k, cur, workerVars, loopVars, keyVars, viewVars>>

\* SetWorkers: runtime.GOMAXPROCS(target), and the call returns.
SetProcs ==
    /\ ProcessAlive
    /\ pc = "procs"
    /\ gomaxprocs' = GOMAXPROCS(gomaxprocs, target)
    /\ pc' = "idle"
    /\ n' = 0
    /\ k' = 0
    /\ cur' = 0
    /\ UNCHANGED <<counter, stopChannels, activeCount, chanBuf, spawned, target,
                   workerVars, loopVars, keyVars, viewVars>>

\* ---------------------------------------------------------------- workers

\* A flush that leaves out the iteration under way.
AtomicAddUint64_Short(c, d) == c + d - 1

\* A flush that counts batches: it adds one whatever the private count is.
AtomicAddUint64_One(c, d) == c + 1

\* atomic.AddUint64(wp.counter, i). The counter is a uint64; it stays below
\* MaxBatches * Batch here, far from 2^64, so the sum never wraps.
AtomicAddUint64(c, d) == c + d

\* The worker's goroutine exists and has not returned.
Live(w) == wstate[w] \in {"spawned", "running", "working"}

\* The worker is at its select statement.
AtSelect(w) == wstate[w] \in {"spawned", "running"}

\* A select that may take its default case while a stop signal is waiting.
TakesDefault_Anyway(buf) == buf >= 0

\* runWorker's select: the default case is taken only when the receive from
\* stopCh cannot proceed, that is when the channel holds no value.
TakesDefault(buf) == buf = 0

\* A worker that leaves the select on a stop signal but not the loop.
AfterStop_Continue == "running"

\* runWorker: what the worker does on case <-stopCh: it returns.
AfterStop == "exited"

\* A worker that flushes its private count before it returns.
CounterAtReturn_Flush(c, i) == c + i

\* runWorker, case <-stopCh: the worker returns at once; its private count i
\* goes away with the goroutine and the counter is not touched.
CounterAtReturn(c, i) == c

\* runWorker: case <-stopCh: return. A ready receive is taken before default.
WorkerStop(w) ==
    /\ ProcessAlive
    /\ AtSelect(w)
    /\ chanBuf[w] > 0
    /\ chanBuf' = [chanBuf EXCEPT ![w] = @ - 1]
    /\ wstate' = [wstate EXCEPT ![w] = AfterStop]
    /\ counter' = CounterAtReturn(counter, wi[w])
    /\ wi' = [wi EXCEPT ![w] = 0]
    /\ UNCHANGED <<stopChannels, activeCount, gomaxprocs, spawned,
                   callVars, loopVars, keyVars, viewVars>>

\* runWorker: Batch - 1 iterations in a row whose select finds no stop signal
\* and whose body does not reach the flush: i goes from 0 to Batch - 1. (The
\* body of such an iteration changes the worker's own i and v only.)
WorkerIterate(w) ==
    /\ ProcessAlive
    /\ AtSelect(w)
    /\ TakesDefault(chanBuf[w])
    /\ wi[w] = 0
    /\ wi' = [wi EXCEPT ![w] = Batch - 1]
    /\ wstate' = [wstate EXCEPT ![w] = "running"]
    /\ UNCHANGED <<counter, poolVars, callVars, loopVars, keyVars, viewVars>>

\* runWorker: the select of the iteration that will flush finds no stop
\* signal and takes the default case. (A worker whose flush would pass the
\* counter's cap waits at the select.)
WorkerDefault(w) ==
    /\ ProcessAlive
    /\ AtSelect(w)
    /\ TakesDefault(chanBuf[w])
    /\ (wi[w] + 1) % Batch = 0
    /\ counter + Batch <= MaxBatches * Batch
    /\ wstate' = [wstate EXCEPT ![w] = "working"]
    /\ UNCHANGED <<counter, poolVars, callVars, wi, loopVars, keyVars, viewVars>>

\* runWorker: the body of the iteration that makes i a multiple of Batch: it
\* adds i to the counter and resets it.
WorkerFlush(w) ==
    /\ ProcessAlive
    /\ wstate[w] = "working"
    /\ (wi[w] + 1) % Batch = 0
    /\ counter' = AtomicAddUint64(counter, wi[w] + 1)
    /\ wi' = [wi EXCEPT ![w] = 0]
    /\ wstate' = [wstate EXCEPT ![w] = "running"]
    /\ UNCHANGED <<poolVars, callVars, loopVars, keyVars, viewVars>>

\* ------------------------------------------------------- hardware sampler

\* A sysfs file is <<kind, value>>: "missing" (os.ReadFile fails), "garbage"
\* (strconv.Atoi fails) or "int" (the text is the decimal integer value).
Missing == <<"missing", 0>>
Garbage == <<"garbage", 0>>
IntFile(v) == <<"int", v>>

\* Go's integer division, which truncates toward zero.
GoDiv(a, b) == IF a >= 0 THEN a \div b ELSE -((-a) \div b)

\* readFileInt: the value and whether an error is returned.
readFileInt(file) ==
    IF file[1] = "int" THEN [val |-> file[2], err |-> FALSE]
    ELSE [val |-> 0, err |-> TRUE]

\* A float64 is kept as the exact fraction <<numerator, denominator>> with a
\* denominator above 0.
Float(v) == <<v, 1>>
Positive(x) == x[1] > 0

\* getCPUFrequency: <<cur, max, pct>> from the two cpufreq files.
getCPUFrequency(curFile, maxFile) ==
    LET curKHz == readFileInt(curFile)
        maxKHz == readFileInt(maxFile)
    IN IF curKHz.err THEN <<0, 0, Float(0)>>
       ELSE IF maxKHz.err THEN <<0, 0, Float(0)>>
       ELSE <<GoDiv(curKHz.val, 1000),
              GoDiv(maxKHz.val, 1000),
              IF GoDiv(maxKHz.val, 1000) > 0
              THEN <<curKHz.val * 100, maxKHz.val>>
              ELSE Float(0)>>

\* strings.ToLower(strings.TrimSpace(...)) on the label texts used here.
ToLower(label) ==
    CASE label = "Core 0" -> "core 0"
      [] label = "Package id 0" -> "package id 0"
      [] label = "CPU" -> "cpu"
      [] label = "SYSTIN" -> "systin"
      [] OTHER -> label

\* strings.Contains on the lowered label texts used here.
Contains(text, sub) ==
    \/ sub = "core" /\ text = "core 0"
    \/ sub = "package" /\ text = "package id 0"
    \/ sub = "cpu" /\ text = "cpu"

\* getCPUTemperature: the sensor is skipped by the label filter. A sensor is
\* [label, file]; label is "" when its label file cannot be read.
LabelSkips(sensor) ==
    LET label == ToLower(sensor.label)
    IN /\ label # ""
       /\ ~Contains(label, "core")
       /\ ~Contains(label, "cpu")
       /\ ~Contains(label, "package")

\* getCPUTemperature: the sensor's value is the one returned if reached.
SensorReturns(sensor) == ~LabelSkips(sensor) /\ ~readFileInt(sensor.file).err

\* getCPUTemperature over the sensors in the order the two globs list them:
\* the first sensor that passes the filter and can be read, else 0. The
\* temperature float64(temp) / 1000.0 is kept as an exact fraction.
getCPUTemperature(sensors) ==
    LET hits == SelectSeq(sensors, SensorReturns)
    IN IF hits = <<>> THEN Float(0)
       ELSE <<readFileInt(hits[1].file).val, 1000>>

\* getFanSpeeds keeping every fan file that can be read.
FanKept_Readable(file) == ~readFileInt(file).err

\* getFanSpeeds: a fan file is kept when it can be read and is not 0.
FanKept(file) == ~readFileInt(file).err /\ readFileInt(file).val # 0

\* getFanSpeeds over the fan files in glob order.
getFanSpeeds(fanFiles) ==
    LET kept == SelectSeq(fanFiles, FanKept)
    IN [i \in 1..Len(kept) |-> readFileInt(kept[i]).val]

\* hardware.Get (getHardwareStats in the older main) on the files r.
Get(r) ==
    LET freq == getCPUFrequency(r.cur, r.max)
    IN [CPUFreqCur |-> freq[1],
        CPUFreqMax |-> freq[2],
        CPUFreqPct |-> freq[3],
        Temperature |-> getCPUTemperature(r.sensors),
        FanRPMs |-> getFanSpeeds(r.fans)]

\* A machine without any of the files, and the Stats value it yields.
NoFiles == [cur |-> Missing, max |-> Missing, sensors |-> <<>>, fans |-> <<>>]
ZeroStats == Get(NoFiles)

\* ------------------------------------------------------------ line output

\* A string built by formatHardwareStats is kept as the sequence of its
\* pieces; a piece is [kind, args]: the text it starts with and the values
\* fmt.Sprintf renders into it.
Sep == [kind |-> " | ", args |-> <<>>]

\* strings.Join (joinStrings) of pieces.
RECURSIVE Join(_, _)
Join(parts, sep) ==
    IF Len(parts) = 0 THEN <<>>
    ELSE IF Len(parts) = 1 THEN <<parts[1]>>
    ELSE <<parts[1], sep>> \o Join(Tail(parts), sep)

\* formatHardwareStats: the parts appended, in order.
Parts(st) ==
    (IF st.CPUFreqMax > 0
     THEN <<[kind |-> "cpu=",
             args |-> <<st.CPUFreqCur, st.CPUFreqMax, st.CPUFreqPct>>]>>
     ELSE <<>>)
    \o (IF Positive(st.Temperature)
        THEN <<[kind |-> "temp=", args |-> <<st.Temperature>>]>>
        ELSE <<>>)
    \o (IF Len(st.FanRPMs) > 0
        THEN <<[kind |-> "fans=", args |-> st.FanRPMs]>>
        ELSE <<>>)

\* formatHardwareStats that joins the parts without the leading separator.
formatHardwareStats_NoLead(st) == Join(Parts(st), Sep)

\* formatHardwareStats.
formatHardwareStats(st) ==
    IF Len(Parts(st)) = 0 THEN <<>>
    ELSE <<Sep>> \o Join(Parts(st), Sep)

\* One tick of the line loop as far as the hardware goes: hardware.Get()
\* and formatHardwareStats on what it returned.
PrintLine ==
    /\ mode = "line"
    /\ stats' = Get(reads)
    /\ hwInfo' = formatHardwareStats(Get(reads))
    /\ UNCHANGED <<counter, poolVars, callVars, workerVars, loopVars, keyVars,
                   reads, histVars, outVars, tuiVars>>

\* Sequences of at most len elements of set.
SeqUpTo(set, len) == UNION {[1..m -> set] : m \in 0..len}

\* The cpufreq files, sensors and fan files a machine may show.
CurFiles == {Missing, Garbage, IntFile(0), IntFile(800000)}
MaxFiles == {Missing, IntFile(900), IntFile(1600000), IntFile(-1600000)}
Sensors ==
    [label : {"", "Core 0", "SYSTIN"}, file : {Garbage, IntFile(45000)}]
    \cup {[label |-> "", file |-> IntFile(0)]}
FanFiles == {Missing, IntFile(0), IntFile(1200)}
ReadsSet ==
    [cur : CurFiles, max : MaxFiles,
     sensors : SeqUpTo(Sensors, MaxSensors), fans : SeqUpTo(FanFiles, MaxFans)]

\* ------------------------------------------------------------ TUI history

\* A history buffer that refuses new entries once it is full.
AppendCapped_DropNewest(h, v, max) == IF Len(h) >= max THEN h ELSE Append(h, v)

\* updateHistory: append v, then drop the first entry if the buffer is
\* longer than max.
AppendCapped(h, v, max) ==
    IF Len(Append(h, v)) > max THEN Tail(Append(h, v)) ELSE Append(h, v)

\* The sum of the fan speeds.
RECURSIVE SumSeq(_)
SumSeq(q) == IF Len(q) = 0 THEN 0 ELSE q[1] + SumSeq(Tail(q))

\* updateHistory: the average of the fan speeds, as a float64.
AvgFan(rpms) == <<SumSeq(rpms), Len(rpms)>>

\* updateHistory on the Model's current sample ops and snapshot st.
updateHistory(ops, st) ==
    /\ opsHistory' = AppendCapped(opsHistory, Float(ops), maxPoints)
    /\ cpuHistory' =
         IF Positive(st.CPUFreqPct)
         THEN AppendCapped(cpuHistory, st.CPUFreqPct, maxPoints)
         ELSE cpuHistory
    /\ tempHistory' =
         IF Positive(st.Temperature)
         THEN AppendCapped(tempHistory, st.Temperature, maxPoints)
         ELSE tempHistory
    /\ fanHistory' =
         IF Len(st.FanRPMs) > 0
         THEN AppendCapped(fanHistory, AvgFan(st.FanRPMs), maxPoints)
         ELSE fanHistory

\* The files one second later: every readable value has risen by one step.
DriftFile(file, step) ==
    IF file[1] = "int" THEN IntFile(file[2] + step) ELSE file
Drift(r) ==
    [cur |-> DriftFile(r.cur, 1000),
     max |-> r.max,
     sensors |-> [i \in 1..Len(r.sensors) |->
                    [label |-> r.sensors[i].label,
                     file |-> DriftFile(r.sensors[i].file, 1000)]],
     fans |-> [i \in 1..Len(r.fans) |-> DriftFile(r.fans[i], 10)]]

\* handleTick from "Update hardware stats" to updateHistory, on the tick's
\* sample of the counter: the sample of the k-th tick is k here, so that the
\* order of the entries can be told.
HandleTickView ==
    /\ mode = "graph"
    /\ ticks < MaxTicks
    /\ ticks' = ticks + 1
    /\ currentOps' = ticks + 1
    /\ reads' = Drift(reads)
    /\ stats' = Get(Drift(reads))
    /\ updateHistory(ticks + 1, Get(Drift(reads)))
    /\ UNCHANGED <<counter, poolVars, callVars, workerVars, loopVars, keyVars,
                   hwInfo, outVars, tuiVars>>

\* The machines the TUI is run on: with or without cpufreq files, with or
\* without a readable CPU sensor, with or without fans.
GraphReads ==
    [cur : {Missing, IntFile(800000)},
     max : {IntFile(1600000)},
     sensors : {<<>>, <<[label |-> "SYSTIN", file |-> IntFile(30000)],
                       [label |-> "Core 0", file |-> IntFile(45000)]>>},
     fans : {<<>>, <<IntFile(1200), IntFile(0), IntFile(900)>>}]

\* -------------------------------------------------------- the pool's owner

\* Model.Init: the TUI starts with one tick command; the line loops have no
\* tick commands.
InitCmds(m) == IF m = "graph" THEN 1 ELSE 0

InitCommon ==
    /\ counter = 0
    /\ stopChannels = <<>>
    /\ activeCount = 0
    /\ gomaxprocs = NumCPU
    /\ chanBuf = [w \in Workers |-> 0]
    /\ wstate = [w \in Workers |-> "unborn"]
    /\ wi = [w \in Workers |-> 0]
    /\ spawned = 0
    /\ pc = "new"
    /\ n = 0
    /\ k = 0
    /\ cur = 0
    /\ runState = "RUNNING"
    /\ elapsed = 0
    /\ lastCounter = 0
    /\ delta = 0
    /\ key = "none"
    /\ before = 0
    /\ stats = ZeroStats
    /\ hwInfo = <<>>
    /\ currentOps = 0
    /\ opsHistory = <<>>
    /\ cpuHistory = <<>>
    /\ tempHistory = <<>>
    /\ fanHistory = <<>>
    /\ ticks = 0
    /\ lpc = "read"
    /\ cRead = 0
    /\ opsSum = 0
    /\ printed = 0
    /\ line = <<>>
    /\ width = 0
    /\ height = 0

\* A program that calls New and then SetWorkers with any targets.
Init ==
    /\ InitCommon
    /\ mode = "api"
    /\ target \in 0..MaxTarget
    /\ duration = 0
    /\ reads = NoFiles
    /\ pendingTicks = InitCmds(mode)

\* ------------------------------------------------------- the sampling loops

\* The duration check with its operands the wrong way round.
DurationReached_Inverted(e, d) == e <= d

\* The duration check of line mode and of the TUI: elapsed >= duration.
DurationReached(e, d) == e >= d

\* The duration check of the older main loop: sec > float64(*duration).
DurationExceeded(e, d) == e > d

\* Whether the tick that measures elapsed time e ends the run.
EndsRun(m, e, d) ==
    IF m = "legacy" THEN DurationExceeded(e, d) ELSE DurationReached(e, d)

\* A loop that reports the counter itself instead of the difference.
CounterDelta_Total(c, last) == c

\* The difference taken the wrong way round.
CounterDelta_Swapped(c, last) == last - c

\* c - last on unsigned 64-bit values. (The difference wraps modulo 2^64 when
\* c < last; a negative value here stands for that wrapped value.)
CounterDelta(c, last) == c - last

\* A loop that never stores the value it read.
NextLast_Never(m, c, last, ends) == last

\* The value remembered as "last" after a tick that read c. The line loops
\* return before last = c when the run ends; handleTick stores c first.
NextLast(m, c, last, ends) ==
    IF m = "graph" \/ ~ends THEN c ELSE last

\* No tick is measured later than this: a run of at most MaxDuration ends on
\* the first tick at or after it, and ticks are Second + 0..MaxJitter apart.
MaxElapsed == MaxDuration + Second + MaxJitter

\* The ops value a tick displays for the delta d: n/1_000_000 in uint64.
Ops(d) == d \div Batch

\* The tick commands the handling of a tick returns: handleTick returns
\* tickCmd() unless it returns tea.Quit; the line loops have no commands.
TickCmds(m, ends) == IF m = "graph" /\ ~ends THEN 1 ELSE 0

\* One tick: time.Sleep(time.Second) (or the tea.Tick timer), then the body of
\* the loop / handleTick. The tick is measured Second + late time units after the one before.
Tick(late) ==
    /\ mode \in {"line", "legacy", "graph", "sampled"}
    /\ pc = "idle"
    /\ runState = "RUNNING"
    /\ mode = "graph" => pendingTicks >= 1
    /\ elapsed + Second + late <= MaxElapsed
    /\ LET c == counter
           e == elapsed + Second + late
           ends == EndsRun(mode, e, duration)
       IN /\ elapsed' = e
          /\ cRead' = c
          /\ delta' = CounterDelta(c, lastCounter)
          /\ opsSum' = opsSum + Ops(CounterDelta(c, lastCounter))
          /\ lastCounter' = NextLast(mode, c, lastCounter, ends)
          /\ runState' = IF ends THEN "TERMINATED" ELSE "RUNNING"
          /\ pendingTicks' = IF mode = "graph"
                              THEN pendingTicks - 1 + TickCmds(mode, ends)
                              ELSE pendingTicks
    /\ UNCHANGED <<counter, poolVars, callVars, workerVars, mode, duration, keyVars,
                   hwVars, histVars, lpc, printed, line, width, height>>

\* The line loop's body with the termination check ahead of the print.
NextStep_CheckBeforePrint(at) ==
    CASE at = "read" -> "sample"
      [] at = "sample" -> "check"
      [] at = "check" -> "print"
      [] at = "print" -> "read"

\* RunLineMode / main: the order of the loop's body. After the sleep and the
\* read of the counter comes the hardware sample, then the Printf, then the
\* duration check, then the next iteration.
NextStep(at) ==
    CASE at = "read" -> "sample"
      [] at = "sample" -> "print"
      [] at = "print" -> "check"
      [] at = "check" -> "read"

\* RunLineMode: time.Sleep returns, the loop reads the counter, computes the
\* delta and measures the elapsed time.
LoopRead(late) ==
    /\ mode = "line"
    /\ pc = "idle"
    /\ runState = "RUNNING"
    /\ lpc = "read"
    /\ elapsed + Second + late <= MaxElapsed
    /\ cRead' = counter
    /\ delta' = CounterDelta(counter, lastCounter)
    /\ elapsed' = elapsed + Second + late
    /\ lpc' = NextStep(lpc)
    /\ UNCHANGED <<counter, poolVars, callVars, workerVars, mode, runState, duration,
                   lastCounter, keyVars, hwVars, histVars, opsSum, printed, line, tuiVars>>

\* RunLineMode: hardware.Get() and formatHardwareStats.
LoopSample ==
    /\ mode = "line"
    /\ runState = "RUNNING"
    /\ lpc = "sample"
    /\ stats' = Get(reads)
    /\ hwInfo' = formatHardwareStats(Get(reads))
    /\ lpc' = NextStep(lpc)
    /\ UNCHANGED <<counter, poolVars, callVars, workerVars, loopVars, keyVars, reads,
                   histVars, cRead, opsSum, printed, line, tuiVars>>

\* RunLineMode: the Printf of the tick's line.
LoopPrint ==
    /\ mode = "line"
    /\ runState = "RUNNING"
    /\ lpc = "print"
    /\ line' = <<Ops(delta), hwInfo>>
    /\ printed' = printed + 1
    /\ opsSum' = opsSum + Ops(delta)
    /\ lpc' = NextStep(lpc)
    /\ UNCHANGED <<counter, poolVars, callVars, workerVars, loopVars, keyVars, hwVars,
                   histVars, cRead, tuiVars>>

\* RunLineMode: if elapsed >= duration { return }; last = c.
LoopCheck ==
    /\ mode = "line"
    /\ runState = "RUNNING"
    /\ lpc = "check"
    /\ LET ends == EndsRun(mode, elapsed, duration)
       IN /\ runState' = IF ends THEN "TERMINATED" ELSE "RUNNING"
          /\ lastCounter' = NextLast(mode, cRead, lastCounter, ends)
          /\ lpc' = IF ends THEN lpc ELSE NextStep(lpc)
    /\ UNCHANGED <<counter, poolVars, callVars, workerVars, mode, elapsed, duration,
                   delta, keyVars, hwVars, histVars, cRead, opsSum, printed, line, tuiVars>>

\* Update, case tea.WindowSizeMsg: the new size is stored and no command is
\* returned.
WindowSize(wd, ht) ==
    /\ mode = "graph"
    /\ pc = "idle"
    /\ runState = "RUNNING"
    /\ width' = wd
    /\ height' = ht
    /\ UNCHANGED <<counter, poolVars, callVars, workerVars, loopVars, keyVars, hwVars,
                   histVars, outVars, pendingTicks>>

\* handleKeyPress letting the decrease key go down to 0 workers.
KeyTarget_NoFloor(ky, count) ==
    IF ky \in {"+", "="} THEN count + 1
    ELSE IF ky \in {"-", "_"} /\ count - 1 >= 0 THEN count - 1
    ELSE -1

\* handleKeyPress stopping every worker when the user quits.
KeyTarget_QuitStops(ky, count) ==
    IF ky \in {"q", "ctrl+c"} THEN 0
    ELSE IF ky \in {"+", "="} THEN count + 1
    ELSE IF ky \in {"-", "_"} /\ count - 1 >= 1 THEN count - 1
    ELSE -1

\* handleKeyPress without the "=" alias of "+".
KeyTarget_NoAlias(ky, count) ==
    IF ky = "+" THEN count + 1
    ELSE IF ky \in {"-", "_"} /\ count - 1 >= 1 THEN count - 1
    ELSE -1

\* handleKeyPress: the target the key asks SetWorkers for (-1: no call).
KeyTarget(ky, count) ==
    IF ky \in {"+", "="} THEN count + 1
    ELSE IF ky \in {"-", "_"} /\ count - 1 >= 1 THEN count - 1
    ELSE -1

\* handleKeyPress starting a tick of its own on every key.
KeyCmds_Tick(ky) == 1

\* The tick commands handleKeyPress returns: it returns nil or tea.Quit,
\* never tickCmd().
KeyCmds(ky) == 0

\* Update / handleKeyPress for one key press of the TUI.
KeyPress(ky) ==
    /\ mode = "graph"
    /\ pc = "idle"
    /\ runState = "RUNNING"
    /\ key' = ky
    /\ before' = GetActiveCount
    /\ runState' = IF ky \in {"q", "ctrl+c"} THEN "TERMINATED" ELSE runState
    /\ IF KeyTarget(ky, GetActiveCount) >= 0
       THEN /\ KeyTarget(ky, GetActiveCount) <= MaxInit
            /\ spawned + Needed(KeyTarget(ky, GetActiveCount)) <= MaxInit
            /\ Dispatch(KeyTarget(ky, GetActiveCount))
       ELSE UNCHANGED callVars
    /\ pendingTicks' = pendingTicks + KeyCmds(ky)
    /\ UNCHANGED <<counter, poolVars, workerVars, mode, elapsed, duration,
                   lastCounter, delta, hwVars, histVars, outVars, width, height>>

\* main / RunGraphMode: the pool is created with the initial workers, then
\* the sampling loop of the chosen mode runs for the configured duration.
InitRun ==
    /\ InitCommon
    /\ mode \in {"line", "legacy", "graph"}
    /\ target \in 1..MaxInit
    /\ duration \in 0..MaxDuration
    /\ mode = "legacy" => duration % Second = 0
    /\ reads = NoFiles
    /\ pendingTicks = InitCmds(mode)

\* The rendering half of the programs on a machine with any of the files:
\* the line loop's hardware segment and the TUI's history.
InitRender ==
    /\ InitCommon
    /\ target = 0
    /\ duration = 0
    /\ \/ mode = "line" /\ reads \in ReadsSet
       \/ mode = "graph" /\ reads \in GraphReads
    /\ pendingTicks = InitCmds(mode)

\* A program that resizes its pool with any targets while RunLineMode
\* samples the counter for the longest duration.
InitSampled ==
    /\ InitCommon
    /\ mode = "sampled"
    /\ target \in 0..MaxTarget
    /\ duration = MaxDuration
    /\ reads = NoFiles
    /\ pendingTicks = InitCmds(mode)

PoolStep ==
    \/ New
    \/ SpawnAppend
    \/ SpawnGo
    \/ StopSend
    \/ StopDec
    \/ StopCleanup
    \/ SetProcs

WorkerStep(w) ==
    \/ WorkerStop(w)
    \/ WorkerIterate(w)
    \/ WorkerDefault(w)
    \/ WorkerFlush(w)

Next ==
    \/ PoolStep
    \/ \E t \in 0..MaxTarget : CallSetWorkers(t)
    \/ \E w \in Workers : WorkerStep(w)

Spec == Init /\ [][Next]_vars

NextRun ==
    \/ PoolStep
    \/ \E late \in 0..MaxJitter : Tick(late)
    \/ \E ky \in Keys : KeyPress(ky)
    \/ \E w \in Workers : WorkerStep(w)

SpecRun == InitRun /\ [][NextRun]_vars

NextSampled ==
    \/ PoolStep
    \/ \E t \in 0..MaxTarget : CallSetWorkers(t)
    \/ \E late \in 0..MaxJitter : Tick(late)
    \/ \E w \in Workers : WorkerStep(w)

SpecSampled == InitSampled /\ [][NextSampled]_vars

NextRender ==
    \/ PrintLine
    \/ HandleTickView

SpecRender == InitRender /\ [][NextRender]_vars

\* A program that calls New and SetWorkers with any integer targets,
\* negative ones included.
InitAnyTarget ==
    /\ InitCommon
    /\ mode = "api"
    /\ target \in (-MaxNegative)..MaxTarget
    /\ duration = 0
    /\ reads = NoFiles
    /\ pendingTicks = InitCmds(mode)

NextAnyTarget ==
    \/ PoolStep
    \/ \E t \in (-MaxNegative)..MaxTarget : CallSetWorkers(t)
    \/ \E w \in Workers : WorkerStep(w)

SpecAnyTarget == InitAnyTarget /\ [][NextAnyTarget]_vars

\* RunLineMode step by step, on a machine without sysfs files or with the
\* cpufreq files, for any duration.
InitTicks ==
    /\ InitCommon
    /\ mode = "line"
    /\ target \in 1..MaxInit
    /\ duration \in 0..MaxDuration
    /\ reads \in {NoFiles, [cur |-> IntFile(800000), max |-> IntFile(1600000),
                            sensors |-> <<>>, fans |-> <<>>]}
    /\ pendingTicks = InitCmds(mode)

StartStep ==
    \/ New
    \/ SpawnAppend
    \/ SpawnGo
    \/ SetProcs

LoopStep ==
    \/ \E late \in 0..MaxJitter : LoopRead(late)
    \/ LoopSample
    \/ LoopPrint
    \/ LoopCheck

NextTicks ==
    \/ StartStep
    \/ LoopStep
    \/ \E w \in Workers : WorkerIterate(w) \/ WorkerDefault(w) \/ WorkerFlush(w)

\* The main goroutine is scheduled fairly: the pool gets started and the
\* loop's body goes on.
SpecTicks ==
    InitTicks /\ [][NextTicks]_vars /\ WF_vars(StartStep) /\ WF_vars(LoopStep)

\* The TUI with its three kinds of message: ticks, key presses and
\* window-size messages.
InitTui ==
    /\ InitRun
    /\ mode = "graph"

NextTui ==
    \/ NextRun
    \/ \E wd \in {80, 120}, ht \in {24, 40} : WindowSize(wd, ht)

SpecTui == InitTui /\ [][NextTui]_vars

\* Spec with every worker goroutine scheduled fairly.
SpecFairWorkers ==
    Spec /\ \A w \in Workers : WF_vars(WorkerStep(w))

\* Spec with the pool's owner scheduled fairly, and no assumption on workers.
SpecFairCaller == Spec /\ WF_vars(PoolStep)

\* SpecRun with the owner goroutine scheduled fairly and every pending tick
\* delivered: the timer's message is queued and handled in its turn.
SpecRunFair ==
    SpecRun /\ WF_vars(PoolStep)
            /\ SF_vars(\E late \in 0..MaxJitter : Tick(late))

\* ------------------------------------------------------------------ claims

LiveWorkers == {w \in Workers : Live(w)}

\* A worker is signalled once a value was sent on its channel: the value is
\* still buffered, or the worker has taken it and left.
Unsignalled == {w \in Workers : Live(w) /\ chanBuf[w] = 0}
SignalledLive == {w \in Workers : Live(w) /\ chanBuf[w] > 0}
Exited == {w \in Workers : wstate[w] = "exited"}

\* C1. Resize convergence: whenever New or SetWorkers(target) has returned
\* (no call in progress), GetActiveCount() equals the target of that call,
\* for every target in 0..MaxTarget and every count before the call.
C1_ResizeConvergence == (pc = "idle") => (GetActiveCount = target)

\* C1 witness: a growth has returned after an earlier shrink stopped some
\* worker.
C1_Witness ==
    /\ pc = "idle"
    /\ target >= 1
    /\ GetActiveCount = target
    /\ Exited # {}

\* C2. No signal leak: whenever a SetWorkers call has returned, the length of
\* stopChannels equals activeCount.
C2_NoSignalLeak == (pc = "idle") => (Len(stopChannels) = activeCount)

\* C2 witness: a shrink has returned with one channel left in the list and a
\* stopped worker's channel gone from it, after MaxSpawn - 1 or more spawns.
C2_Witness ==
    /\ pc = "idle"
    /\ Len(stopChannels) = 1
    /\ activeCount = 1
    /\ spawned >= MaxSpawn - 1
    /\ \E w \in Workers : chanBuf[w] > 0 \/ wstate[w] = "exited"

\* C3 as stated, read at its weakest, in the states where no SetWorkers call
\* is in progress: activeCount equals the number of live workers (spawned,
\* loop not yet exited).
C3_ActiveEqualsLive == (pc = "idle") => (activeCount = Cardinality(LiveWorkers))

\* C3 amended: whenever no SetWorkers call is in progress, activeCount equals
\* the number of spawned workers that have not been sent a stop signal, and
\* the live workers are these plus the signalled workers still running.
C3_ActiveEqualsUnsignalled ==
    (pc = "idle") =>
        /\ activeCount = Cardinality(Unsignalled)
        /\ Cardinality(LiveWorkers) = activeCount + Cardinality(SignalledLive)

\* C3 witness: a shrink has returned while a signalled worker is still live.
C3_Witness ==
    /\ pc = "idle"
    /\ SignalledLive # {}
    /\ Cardinality(LiveWorkers) > activeCount

\* C4. A stop signal cannot be missed: under fair scheduling of the workers,
\* every worker whose channel holds a signal eventually exits, whether or not
\* it has polled before, and an exited worker stays exited.
C4_StopNeverMissed ==
    /\ \A w \in Workers : (chanBuf[w] > 0) ~> (wstate[w] = "exited")
    /\ [][\A w \in Workers : wstate[w] = "exited" => wstate'[w] = "exited"]_vars

\* C4 witness: a worker is signalled before its first poll.
C4_Witness == \E w \in Workers : chanBuf[w] > 0 /\ wstate[w] = "spawned"

\* The send of stopWorkers' current iteration finds the buffer full.
SendWouldBlock ==
    /\ pc = "stop"
    /\ StopLoopCond
    /\ StopIdxInRange
    /\ chanBuf[StopChan] >= ChanCap

\* C5. Resizing never blocks: no send of stopWorkers finds its channel's
\* buffer full, and every call of SetWorkers returns when only the caller is
\* scheduled, whether or not the signalled workers ever run.
C5_ResizeNeverBlocks ==
    /\ [](~SendWouldBlock)
    /\ (pc # "idle") ~> (pc = "idle")

\* C5 witness: a shrink has returned while its signal is still in the buffer
\* of a worker that has not run since.
C5_Witness ==
    /\ pc = "idle"
    /\ target < spawned
    /\ \E w \in Workers : chanBuf[w] = ChanCap /\ Live(w)

\* C6. Counter monotonicity: the value a tick reads is never below the value
\* the tick before read, so every reported delta is >= 0.
C6_CounterMonotone == lastCounter <= counter /\ delta >= 0

\* C6 witness: a tick has reported a positive delta and the workers have
\* added to the counter again since.
C6_Witness == delta > 0 /\ lastCounter > 0 /\ counter > lastCounter

\* C7 as stated: a tick ends the run exactly when the elapsed time it
\* measures is >= the configured duration (in every sampling loop).
C7_TerminationTiming ==
    [][(elapsed' # elapsed) =>
          ((runState' = "TERMINATED") <=> (elapsed' >= duration))]_vars

\* C8. The run terminates: with ticks firing, the sampling loop reaches
\* TERMINATED, and once TERMINATED no further tick is processed.
C8_RunTerminates ==
    /\ <>(runState = "TERMINATED")
    /\ [][runState = "TERMINATED" =>
            /\ runState' = "TERMINATED"
            /\ elapsed' = elapsed
            /\ lastCounter' = lastCounter
            /\ delta' = delta]_vars

\* C8 witness: the TUI's run was ended by a tick, not by the quit key, after
\* a tick that did not end it.
C8_Witness ==
    /\ mode = "graph"
    /\ runState = "TERMINATED"
    /\ key \notin {"q", "ctrl+c"}
    /\ elapsed >= 2 * Second

\* C9. Minimum worker floor: in the TUI, started with at least one worker,
\* activeCount is at least 1 from the return of New on, through any key
\* presses and ticks; and a decrease key taken up at activeCount = 1 starts
\* no SetWorkers call and leaves the pool as it is.
C9_MinWorkerFloor ==
    (mode = "graph") =>
        /\ (pc = "idle" \/ key # "none") => activeCount >= 1
        /\ (key \in {"-", "_"} /\ before = 1) =>
              /\ pc = "idle"
              /\ activeCount = 1
              /\ Len(stopChannels) = 1

\* C9 witness: a decrease key was pressed with one worker active.
C9_Witness ==
    /\ mode = "graph"
    /\ key \in {"-", "_"}
    /\ before = 1
    /\ activeCount = 1

\* C10. Key step size: when the handler of "+" or "=" has returned,
\* activeCount is one more than before the press; when the handler of "-" or
\* "_" has returned after a press at activeCount >= 2, it is one less.
C10_KeyStep ==
    (mode = "graph" /\ pc = "idle") =>
        /\ key \in {"+", "="} => activeCount = before + 1
        /\ (key \in {"-", "_"} /\ before >= 2) => activeCount = before - 1

\* C10 witness: "=" has raised a count of at least one by one.
C10_Witness ==
    /\ mode = "graph"
    /\ pc = "idle"
    /\ key = "="
    /\ before >= 1
    /\ activeCount = before + 1

\* A step is a tick exactly when it changes the elapsed time measured.
TickStep == elapsed' # elapsed

\* C11 as stated: on every tick of every loop, the reported delta is the
\* counter read on this tick minus the value read on the tick before (0
\* before the first tick), and that value read becomes the remembered one.
C11_DeltaAndLastEveryTick ==
    [][TickStep => (delta' = counter - lastCounter /\ lastCounter' = counter)]_vars

\* C11. Per-tick delta: on every tick of every loop, the reported delta is
\* the counter read on this tick minus the value remembered from the tick
\* before (0 before the first tick); the value read becomes the remembered
\* one on every tick of the TUI and on every tick of a line loop that does not
\* end the run, while the tick that ends a line loop leaves it as it was.
C11_DeltaAndLast ==
    [][TickStep =>
         /\ delta' = counter - lastCounter
         /\ (mode = "graph" \/ runState' = "RUNNING") => lastCounter' = counter
         /\ (mode # "graph" /\ runState' = "TERMINATED") => lastCounter' = lastCounter
      ]_vars

\* C11 witness: a line loop has ended on its second or a later tick, which
\* reported a delta above zero against a remembered value above zero.
C11_Witness ==
    /\ mode = "line"
    /\ runState = "TERMINATED"
    /\ lastCounter > 0
    /\ delta > 0
    /\ counter = lastCounter + delta

\* SetWorkers(0) has returned and no worker is running any more.
PoolQuiet == pc = "idle" /\ target = 0 /\ LiveWorkers = {}

\* C12 as stated: once SetWorkers(0) has returned and no worker is running,
\* every tick reports a delta of 0.
C12_ZeroDeltaOnceStopped == [][(PoolQuiet /\ TickStep) => delta' = 0]_vars

\* C12. Delta under no activity: once SetWorkers(0) has returned and every
\* worker has exited, the counter no longer changes; a tick made then
\* remembers the counter's value (unless it ends the run), and a tick made
\* when the remembered value is already the counter's value reports 0. So
\* only the first tick after the pool went quiet can report a delta above 0.
C12_QuietDelta ==
    [][PoolQuiet =>
         /\ counter' = counter
         /\ TickStep =>
              /\ runState' = "RUNNING" => lastCounter' = counter
              /\ lastCounter = counter => delta' = 0
      ]_vars

\* C12 witness: after workers have flushed and been stopped by SetWorkers(0),
\* the tick that ended the run was made in the quiet pool and reported 0.
C12_Witness ==
    /\ mode = "sampled"
    /\ runState = "TERMINATED"
    /\ PoolQuiet
    /\ Exited # {}
    /\ counter > 0
    /\ lastCounter = counter
    /\ delta = 0

NoResizeEffect ==
    /\ spawned' = spawned
    /\ activeCount' = activeCount
    /\ stopChannels' = stopChannels
    /\ \A w \in Workers : chanBuf'[w] <= chanBuf[w]
    /\ \A w \in Workers : wstate[w] = "unborn" => wstate'[w] = "unborn"

\* C14. Resize to the current size is a no-op: a call of New or SetWorkers
\* whose target equals activeCount goes straight to the GOMAXPROCS call and
\* returns from there; neither step spawns a worker, sends on a stop channel
\* or changes activeCount or stopChannels.
C14_ResizeToSameIsNoOp ==
    /\ [][(pc \in {"idle", "new"} /\ pc' # pc /\ target' = activeCount) =>
            (pc' = "procs" /\ n' = 0 /\ NoResizeEffect)]_vars
    /\ [][(pc = "procs" /\ n = 0) =>
            (pc' \in {"procs", "idle"} /\ NoResizeEffect)]_vars

\* C14 witness: a call SetWorkers(target) with target = activeCount >= 1 is
\* about to return, with a worker stopped by an earlier call.
C14_Witness ==
    /\ pc = "procs"
    /\ n = 0
    /\ target >= 1
    /\ activeCount = target
    /\ Len(stopChannels) = target
    /\ Exited # {}

\* A SetWorkers call (or the one New makes) is in progress.
InCall == pc \notin {"new", "idle"}

\* The count SetWorkers loaded at the start of the call in progress: the
\* local current of stopWorkers in a shrink, target - n otherwise.
CountAtCall == IF cur > 0 THEN cur ELSE target - n

\* C15. Reads concurrent with a resize: while one SetWorkers call is in
\* progress, the value GetActiveCount() returns in any state lies between the
\* count at the start of the call and the target, inclusive, and from one
\* state to the next it never moves away from the target.
C15_ReadsDuringResize ==
    /\ [](InCall =>
            IF CountAtCall <= target
            THEN CountAtCall <= GetActiveCount /\ GetActiveCount <= target
            ELSE target <= GetActiveCount /\ GetActiveCount <= CountAtCall)
    /\ [][InCall =>
            IF CountAtCall <= target
            THEN activeCount' >= activeCount
            ELSE activeCount' <= activeCount]_vars

\* C15 witness: a shrink from two workers to none is half done, and a read
\* returns 1.
C15_Witness ==
    /\ pc = "stop"
    /\ cur = 2
    /\ target = 0
    /\ GetActiveCount = 1

\* The pieces of the line's hardware part that are no separators.
SegmentKinds == {"cpu=", "temp=", "fans="}
SegmentRank(kind) ==
    CASE kind = "cpu=" -> 1 [] kind = "temp=" -> 2 [] kind = "fans=" -> 3
      [] OTHER -> 0
HasSegment(kind) == \E i \in 1..Len(hwInfo) : hwInfo[i].kind = kind

\* C16. Line output formatting: in the string formatHardwareStats returns
\* for a snapshot (hwInfo for stats, in the line loop), the cpu= segment is present iff CPUFreqMax > 0, the temp=
\* segment iff Temperature > 0, the fans= segment iff the fan list is not
\* empty; the string is an alternation of " | " and segments, so every
\* segment is preceded by " | "; segments come in the order cpu, temp, fans;
\* and the string is empty when no segment is present.
C16_LineFormat ==
    (mode = "line") =>
        /\ HasSegment("cpu=") <=> stats.CPUFreqMax > 0
        /\ HasSegment("temp=") <=> Positive(stats.Temperature)
        /\ HasSegment("fans=") <=> Len(stats.FanRPMs) > 0
        /\ Len(hwInfo) % 2 = 0
        /\ \A i \in 1..Len(hwInfo) :
              IF i % 2 = 1 THEN hwInfo[i] = Sep
              ELSE hwInfo[i].kind \in SegmentKinds
        /\ \A i, j \in 1..Len(hwInfo) :
              (i < j /\ i % 2 = 0 /\ j % 2 = 0) =>
                  SegmentRank(hwInfo[i].kind) < SegmentRank(hwInfo[j].kind)
        /\ (stats.CPUFreqMax <= 0 /\ ~Positive(stats.Temperature)
              /\ Len(stats.FanRPMs) = 0) => hwInfo = <<>>

\* C16 witness: a snapshot with all three metrics, one of two fans having
\* been dropped, has been formatted into three segments.
C16_Witness ==
    /\ Len(hwInfo) = 6
    /\ Len(reads.fans) = 2
    /\ Len(stats.FanRPMs) = 1
    /\ stats.CPUFreqMax > 0

\* A file whose read fails or whose text is no integer.
ReadFails(file) == file[1] # "int"

\* The positions of the fan files that can be read and are not 0.
GoodFans(fanFiles) ==
    {i \in 1..Len(fanFiles) : ~ReadFails(fanFiles[i]) /\ fanFiles[i][2] # 0}

\* C17. The hardware sampler never fails its caller: for every combination
\* of missing, unparsable and readable files, Get returns a snapshot (stats
\* after the step, for the files the step has read); when
\* the current or the maximum frequency cannot be read, cur, max and pct are
\* 0; when no sensor with a CPU label or without label can be read, the
\* temperature is 0; and the fan list holds exactly the readable non-zero
\* fans.
C17_SamplerNeverFails ==
    [][
        /\ DOMAIN stats' =
             {"CPUFreqCur", "CPUFreqMax", "CPUFreqPct", "Temperature", "FanRPMs"}
        /\ (ReadFails(reads'.cur) \/ ReadFails(reads'.max)) =>
             /\ stats'.CPUFreqCur = 0
             /\ stats'.CPUFreqMax = 0
             /\ stats'.CPUFreqPct[1] = 0
        /\ (\A i \in 1..Len(reads'.sensors) :
               \/ ReadFails(reads'.sensors[i].file)
               \/ reads'.sensors[i].label = "SYSTIN") =>
             stats'.Temperature[1] = 0
        /\ Len(stats'.FanRPMs) = Cardinality(GoodFans(reads'.fans))
        /\ \A i \in 1..Len(stats'.FanRPMs) : stats'.FanRPMs[i] # 0
      ]_vars

\* C17 witness: Get has returned a snapshot for a machine whose current
\* frequency is unparsable, whose first sensor is no CPU sensor and whose
\* first fan stands still.
C17_Witness ==
    /\ reads.cur = Garbage
    /\ reads.max = IntFile(1600000)
    /\ reads.sensors =
         <<[label |-> "SYSTIN", file |-> IntFile(45000)],
           [label |-> "Core 0", file |-> IntFile(45000)]>>
    /\ reads.fans = <<IntFile(0), IntFile(1200)>>
    /\ stats.CPUFreqMax = 0
    /\ Positive(stats.Temperature)
    /\ stats.FanRPMs = <<1200>>

\* The shorter of two lengths.
Min(a, b) == IF a <= b THEN a ELSE b

\* The four history buffers.
Histories == <<opsHistory, cpuHistory, tempHistory, fanHistory>>

\* C18. Rolling history window: after every tick each of the four history
\* buffers holds at most maxPoints entries; the ops history holds the
\* samples of the latest min(ticks, maxPoints) ticks in arrival order (the
\* sample of the k-th tick being k); and a tick that appends to a full
\* buffer drops its oldest entry and keeps the others in order.
C18_RollingHistory ==
    /\ [](\A b \in 1..4 : Len(Histories[b]) <= maxPoints)
    /\ [](/\ Len(opsHistory) = Min(ticks, maxPoints)
          /\ \A i \in 1..Len(opsHistory) :
                opsHistory[i] = Float(ticks - Len(opsHistory) + i))
    /\ [][\A b \in 1..4 :
            (Len(Histories[b]) = maxPoints /\ Histories[b]' # Histories[b]) =>
                /\ Len(Histories[b]') = maxPoints
                /\ \A i \in 1..(maxPoints - 1) :
                      Histories[b]'[i] = Histories[b][i + 1]
         ]_vars

\* C18 witness: two ticks after the window filled, the ops and cpu
\* histories are full and start at the third sample, on a machine whose
\* temperature cannot be read.
C18_Witness ==
    /\ ticks = maxPoints + 2
    /\ Len(opsHistory) = maxPoints
    /\ opsHistory[1] = Float(3)
    /\ Len(cpuHistory) = maxPoints
    /\ Len(fanHistory) = maxPoints
    /\ tempHistory = <<>>

\* A worker on whose channel a stop signal has been sent: the signal is
\* still buffered, or the worker has received it and returned.
Signalled(w) == chanBuf[w] > 0 \/ wstate[w] = "exited"

\* The workers whose channels are in the list.
Listed == {stopChannels[i] : i \in 1..Len(stopChannels)}

\* C19. Bookkeeping matches the live set: whenever a SetWorkers call has
\* returned, stopChannels lists the channels of exactly the spawned workers
\* that have not been signalled, each once and in spawn order.
C19_BookkeepingMatches ==
    (pc = "idle") =>
        /\ \A i, j \in 1..Len(stopChannels) :
              i < j => stopChannels[i] < stopChannels[j]
        /\ Listed = {w \in 1..spawned : ~Signalled(w)}

\* C19 witness: after a shrink to no worker and a growth to one, the list
\* holds the second worker's channel only.
C19_Witness ==
    /\ pc = "idle"
    /\ stopChannels = <<2>>
    /\ Signalled(1)
    /\ ~Signalled(2)

\* C20. Shrink is exact and LIFO: all through a SetWorkers call with
\* 0 <= target < activeCount, the list still holds the workers that were
\* unsignalled when the call began, the workers signalled so far are the
\* most recently spawned of these, as many as loop iterations are done, and
\* activeCount has decreased by the same number; when the loop ends
\* that number is activeCount - target as of the beginning of the call.
C20_ShrinkExactLIFO ==
    (pc \in {"stop", "dec"}) =>
        LET done == IF pc = "dec" THEN k + 1 ELSE k
        IN /\ 0 <= target /\ target < cur /\ n = cur - target
           /\ Len(stopChannels) = cur
           /\ \A i \in 1..cur : Signalled(stopChannels[i]) <=> i > cur - done
           /\ \A i, j \in 1..cur : i < j => stopChannels[i] < stopChannels[j]
           /\ activeCount = cur - k
           /\ (pc = "stop" /\ ~StopLoopCond) => (k = n /\ activeCount = target)

\* C20 witness: the loop of a shrink from two workers to one has ended with
\* the second worker signalled and the first one not.
C20_Witness ==
    /\ pc = "stop"
    /\ ~StopLoopCond
    /\ cur = 2
    /\ target = 1
    /\ Signalled(stopChannels[2])
    /\ ~Signalled(stopChannels[1])

\* C21. Single-use stop signals: a value is put on a worker's stop channel
\* only by stopWorkers, only on a channel that was never signalled before,
\* and one value at a time; a value is taken from worker w's channel only
\* by the step with which worker w returns. So at most one value is ever
\* sent per worker, and an exited worker's channel is empty.
C21_SingleUseSignals ==
    /\ [](\A w \in Workers :
            chanBuf[w] + (IF wstate[w] = "exited" THEN 1 ELSE 0) <= 1)
    /\ [][\A w \in Workers :
            /\ chanBuf'[w] > chanBuf[w] =>
                 (pc = "stop" /\ ~Signalled(w) /\ chanBuf'[w] = chanBuf[w] + 1)
            /\ chanBuf'[w] < chanBuf[w] =>
                 (Live(w) /\ wstate'[w] = "exited" /\ chanBuf'[w] = chanBuf[w] - 1)
         ]_vars

\* C21 witness: the second worker has received its signal and returned, and
\* a later call has signalled the first worker.
C21_Witness ==
    /\ pc = "idle"
    /\ wstate[2] = "exited"
    /\ chanBuf[2] = 0
    /\ chanBuf[1] = 1
    /\ Live(1)

\* C22. Worker batching: between iterations a worker's private count is in
\* 0..999,999; every step that changes the shared counter adds exactly
\* 1,000,000 to it, is made by one worker whose count stood at 999,999 (the
\* iteration under way is its 1,000,000th since the previous flush), and
\* leaves that worker's count at 0 and every other worker's count as it was.
C22_WorkerBatching ==
    /\ [](\A w \in Workers : wi[w] \in 0..(Batch - 1))
    /\ [][counter' # counter =>
            /\ counter' = counter + Batch
            /\ \E w \in Workers :
                 /\ wstate[w] = "working"
                 /\ wi[w] = Batch - 1
                 /\ wi'[w] = 0
                 /\ \A o \in Workers \ {w} : wi'[o] = wi[o]
         ]_vars

\* C22 witness: two flushes have been made and a worker is again one
\* iteration short of its next flush.
C22_Witness ==
    /\ counter = 2 * Batch
    /\ \E w \in Workers : Live(w) /\ wi[w] = Batch - 1

\* C23. Stop without flush: the step in which a worker takes its stop signal
\* is the step in which it exits; that step leaves the shared counter
\* unchanged and drops the worker's private count, which was below
\* 1,000,000; a worker that has exited stays exited with no private count.
C23_StopWithoutFlush ==
    [][\A w \in Workers :
        /\ (chanBuf'[w] < chanBuf[w] \/ (Live(w) /\ wstate'[w] = "exited")) =>
              /\ chanBuf[w] > 0
              /\ wstate'[w] = "exited"
              /\ counter' = counter
              /\ wi[w] < Batch
              /\ wi'[w] = 0
        /\ wstate[w] = "exited" => (wstate'[w] = "exited" /\ wi'[w] = 0)
     ]_vars

\* C23 witness: one worker has exited on its signal, and another, 999,999
\* iterations into its batch, is at the select with its signal waiting.
C23_Witness ==
    /\ wstate[2] = "exited"
    /\ counter = Batch
    /\ AtSelect(1)
    /\ chanBuf[1] = 1
    /\ wi[1] = Batch - 1

\* C24. Tick step ordering (line loop): the body runs read, sample, print,
\* check in that order; the hardware is sampled after the counter is read,
\* the line printed carries this tick's delta and this tick's sample, and
\* the run ends only in the check, after the print of the same tick. So
\* every tick begun is printed before the loop looks at the duration, a
\* terminated run has printed at least one line, whatever the duration, and
\* every run prints a line.
C24_TickStepOrdering ==
    /\ [][/\ lpc' # lpc => lpc' = NextStep(lpc)
          /\ (lpc = "read" /\ lpc' # lpc) => cRead' = counter
          /\ (lpc = "sample" /\ lpc' # lpc) => stats' = Get(reads)
          /\ (lpc = "print" /\ lpc' # lpc) =>
                (printed' = printed + 1 /\ line' = <<Ops(delta), hwInfo>>)
          /\ runState' # runState => (lpc = "check" /\ printed' = printed)
         ]_vars
    /\ [](lpc = "check" =>
            /\ printed >= 1
            /\ line = <<Ops(CounterDelta(cRead, lastCounter)),
                        formatHardwareStats(Get(reads))>>)
    /\ [](runState = "TERMINATED" => (lpc = "check" /\ printed >= 1))
    /\ <>(printed >= 1)

\* C24 witness: a run with duration 0 on a machine that shows its cpufreq
\* files has ended on its first tick, and that tick's line, with a delta and
\* a hardware segment, has been printed.
C24_Witness ==
    /\ mode = "line"
    /\ duration = 0
    /\ runState = "TERMINATED"
    /\ printed = 1
    /\ Len(line) = 2
    /\ line[1] >= 1
    /\ line[2] # <<>>

\* C25. Termination does not stop workers: the step that takes the run from
\* RUNNING to TERMINATED, be it a tick that finds the duration reached or the
\* key "q" or ctrl+c, puts nothing on any stop channel, leaves activeCount
\* and the stopChannels list as they were, starts no resize, and leaves
\* every worker where it was.
C25_TerminationLeavesPool ==
    [][(runState = "RUNNING" /\ runState' = "TERMINATED") =>
          /\ chanBuf' = chanBuf
          /\ activeCount' = activeCount
          /\ stopChannels' = stopChannels
          /\ pc' = pc
          /\ wstate' = wstate
     ]_vars

\* C25 witness: the TUI has been quit with a key while two workers were
\* registered and running; none of them has a signal or has exited.
C25_Witness ==
    /\ runState = "TERMINATED"
    /\ key \in {"q", "ctrl+c"}
    /\ activeCount = 2
    /\ Len(stopChannels) = 2
    /\ \A w \in Workers : Live(w) /\ chanBuf[w] = 0

\* C26. The shared counter is a multiple of 1,000,000 in every state, and so
\* are the value a tick reads and the delta it computes; the displayed ops
\* value delta / 1,000,000 therefore loses no remainder, and the sum of all
\* ops values displayed so far, times 1,000,000, is the counter value the
\* latest tick read.
C26_CounterInBatches ==
    /\ counter % Batch = 0
    /\ cRead % Batch = 0
    /\ delta % Batch = 0
    /\ Ops(delta) * Batch = delta
    /\ opsSum * Batch = cRead

\* C26 witness: a line-mode run has ended on a tick that displayed 1 after
\* an earlier tick had displayed 1.
C26_Witness ==
    /\ mode = "line"
    /\ runState = "TERMINATED"
    /\ delta = Batch
    /\ lastCounter = Batch
    /\ opsSum = 2
    /\ cRead = 2 * Batch

\* Batches that workers with a stop signal waiting may still add: one for
\* each such worker that is in the iteration that flushes.
SignalledInFlight ==
    {w \in Workers : chanBuf[w] > 0 /\ wstate[w] = "working"}

\* C27. Bounded work after a stop: a worker whose stop signal has been sent
\* starts no new iteration, and adds to the counter only by finishing the
\* flushing iteration it was in when the signal was sent, once. So while
\* every live worker is signalled, as after resize(0) has signalled k
\* workers, the counter plus one batch for each signalled worker still in
\* its flushing iteration never grows: the counter grows by at most
\* 1,000,000 for each of those workers, at most k * 1,000,000 in total.
C27_BoundedWorkAfterStop ==
    /\ [][\A w \in Workers :
            (chanBuf[w] > 0 /\ Live(w)) =>
               /\ (wstate'[w] = "working" => wstate[w] = "working")
               /\ wi'[w] <= wi[w]
         ]_vars
    /\ [][(Unsignalled = {} /\ Unsignalled' = {}) =>
            /\ counter' + Batch * Cardinality(SignalledInFlight')
                  <= counter + Batch * Cardinality(SignalledInFlight)
            /\ Cardinality(SignalledInFlight) <= Cardinality(SignalledLive)
         ]_vars

\* C27 witness: resize(0) has returned with both workers signalled, both in
\* their flushing iteration: each may add its batch, and nothing more.
C27_Witness ==
    /\ pc = "idle"
    /\ target = 0
    /\ activeCount = 0
    /\ counter = 0
    /\ \A w \in Workers : chanBuf[w] = 1 /\ wstate[w] = "working"

\* C28. activeCount is never negative: with targets of either sign,
\* activeCount >= 0 in every state; every iteration of stopWorkers' loop has
\* its index inside the list; and when a call with a negative target
\* returns, the pool is as SetWorkers(0) leaves it: activeCount is 0, the
\* list is empty, every worker ever spawned is signalled, and the
\* GOMAXPROCS setting is the one the call found.
C28_NeverNegative ==
    /\ [](activeCount >= 0)
    /\ []((pc = "stop" /\ StopLoopCond) => StopIdxInRange)
    /\ []((pc \in {"procs", "idle"} /\ target <= 0) =>
             /\ activeCount = 0
             /\ stopChannels = <<>>
             /\ \A w \in Workers : wstate[w] # "unborn" => Signalled(w))
    /\ [][(pc = "procs" /\ pc' = "idle" /\ target <= 0) =>
             gomaxprocs' = gomaxprocs]_vars

\* C28 witness: SetWorkers(-1) on a pool of two workers has asked
\* stopWorkers for three, has signalled the two there are, and has left the
\* count at 0 and the list empty.
C28_Witness ==
    /\ pc = "procs"
    /\ target = -1
    /\ n = 3
    /\ cur = 2
    /\ k = 2
    /\ activeCount = 0
    /\ stopChannels = <<>>

\* C29. Single tick chain in the TUI: while the run is RUNNING exactly one
\* tick is pending; the handling of a tick takes the pending tick and leaves
\* one pending, or none when it ends the run; the handling of a key press
\* or of a window-size message leaves the number of pending ticks as it
\* was. So the ticks form one chain, each started by the one before, that
\* no key press or resize can double or break.
C29_SingleTickChain ==
    /\ []((mode = "graph" /\ runState = "RUNNING") => pendingTicks = 1)
    /\ [][elapsed' # elapsed =>
            /\ pendingTicks >= 1
            /\ pendingTicks' = IF runState' = "TERMINATED" THEN 0 ELSE 1
         ]_vars
    /\ [][(key' # key \/ width' # width \/ height' # height \/ elapsed' = elapsed) =>
            pendingTicks' = pendingTicks
         ]_vars

\* C29 witness: a tick has been handled, a key has changed the number of
\* workers and the window has been resized; the run goes on with one tick
\* pending.
C29_Witness ==
    /\ mode = "graph"
    /\ runState = "RUNNING"
    /\ elapsed >= Second
    /\ key \in {"+", "=", "-", "_"}
    /\ before # activeCount
    /\ width = 120
    /\ pendingTicks = 1

====
